---- MODULE Spec2Model ----
(***************************************************************************)
(* The acknowledgement / retry coordination of faststream:                 *)
(* faststream/broker/push_back_watcher.py.                                 *)
(*                                                                         *)
(* One watcher (EndlessWatcher, OneTryWatcher or CounterWatcher) is shared *)
(* by the WatcherContext scopes of a handler.  A scope is entered          *)
(* (__aenter__), the handler body runs and finishes by returning or by     *)
(* raising, and __aexit__ decides and performs the terminal operation on   *)
(* the message.  The message operation may complete at once or suspend the *)
(* scope (await), and other scopes run while it is suspended.              *)
(***************************************************************************)
EXTENDS Integers, Sequences, FiniteSets, TLC

\* ---------------------------------------------------------------- bounds
\* Number of WatcherContext scopes that are constructed in a run.
NScopes == 2
\* Number of distinct message ids.
NumIds == 2
\* Largest max_tries a CounterWatcher is constructed with.
MaxTries == 1
\* Most calls of watcher.add for one message id between two calls of
\* watcher.remove, when the methods of the watcher are called directly.
MaxAdds == 2

ScopeIds == 1..NScopes
MsgIds == 1..NumIds

\* ------------------------------------------------------- exception kinds
\* What reaches __aexit__ as exc_type / exc_val.  "None" is the normal return
\* of the handler body; "Exception" is any exception that is neither a
\* SkipMessage nor a HandlerException; "CancelledError" is the cancellation of
\* the task, a BaseException; "HandlerException" is an instance of the base
\* class that is none of its three subclasses.
ExcKinds ==
    {"None", "SkipMessage", "AckMessage", "NackMessage", "RejectMessage",
     "HandlerException", "Exception", "CancelledError"}

\* isinstance(exc_val, HandlerException): the three signals that __aexit__
\* tests inside that branch are its subclasses.
IsHandlerException(e) ==
    e \in {"HandlerException", "AckMessage", "NackMessage", "RejectMessage"}

\* ------------------------------------------------------------- the state
VARIABLES
    watcher,      \* the class of the shared watcher
    max_tries,    \* BaseWatcher.max_tries
    logger,       \* BaseWatcher.logger is not None
    memory,       \* CounterWatcher.memory: a Counter, message id -> count
    lastlog,      \* the last message given to logger.error ("none" before)
    since,        \* per id: calls of add since the last remove of the id
    removed,      \* per id: remove has been called for the id
    answer,       \* per id: what is_max answered since its last add or remove
    pc,           \* per scope: "idle", "entered", "suspended", "done"
    message_id,   \* per scope: message.message_id (0 before construction)
    exc_val,      \* per scope: what the handler body ended with
    pending,      \* per scope: the message operation it is suspended in
    calls,        \* per scope: the message operations invoked, in order
    wcalls,       \* per scope: the watcher methods invoked, in order
    ret,          \* per scope: what __aexit__ returned ("unset" before)
    raised,       \* per scope: the exception its caller observes
    seen,         \* per scope: count of its id when __aexit__ began
    left,         \* per scope: count of its id when __aexit__ returned
    ord,          \* per scope: its rank among the entries of its id
    alone,        \* per scope: no scope of its id overlapped it so far
    events        \* per scope: its watcher calls and message operations,
                  \* in the order in which it made them

\* The watcher and the history of the calls of its methods.
wvars == <<watcher, max_tries, logger, memory, lastlog, since, removed, answer>>

\* The WatcherContext scopes.
svars ==
    <<pc, message_id, exc_val, pending, calls, wcalls, ret, raised, seen,
      left, ord, alone, events>>

vars == <<wvars, svars>>

\* ------------------------------------------------- collections.Counter
\* Counter.__getitem__ / __missing__: a missing key reads as 0 and is not
\* inserted.
Count(mem, id) == IF id \in DOMAIN mem THEN mem[id] ELSE 0

\* The mapping after mem[id] has been read: Counter.__missing__ returns 0
\* for a missing key and does not insert it (a defaultdict would).
AfterGetItem_Inserts(mem, id) ==
    [k \in (DOMAIN mem) \cup {id} |-> Count(mem, k)]

AfterGetItem(mem, id) == mem

\* Assignment mem[id] = v.
SetItem(mem, id, v) ==
    [k \in (DOMAIN mem) \cup {id} |-> IF k = id THEN v ELSE mem[k]]

\* Counter.__iadd__(Counter()): adds nothing and then keeps only the
\* entries whose count is positive.
KeepPositive_KeepsAll(mem) == mem

KeepPositive(mem) ==
    [k \in {j \in DOMAIN mem : mem[j] > 0} |-> mem[k]]

\* ------------------------------------------------------- CounterWatcher
CounterWatcher_add_Once(mem, id) == SetItem(mem, id, 1)

CounterWatcher_add_ByTwo(mem, id) == SetItem(mem, id, Count(mem, id) + 2)

CounterWatcher_add(mem, id) == SetItem(mem, id, Count(mem, id) + 1)

CounterWatcher_is_max_AtLeast(mem, id, max) == Count(mem, id) >= max

CounterWatcher_is_max_NeedsLogger(mem, id, max) ==
    logger /\ Count(mem, id) > max

CounterWatcher_is_max_OneMore(mem, id, max) == Count(mem, id) > max + 1

CounterWatcher_is_max(mem, id, max) == Count(mem, id) > max

CounterWatcher_remove_KeepsCount(mem, id) == KeepPositive(mem)

CounterWatcher_remove_ClearsAll(mem, id) == <<>>

CounterWatcher_remove_ResetOnly(mem, id) == SetItem(mem, id, 0)

CounterWatcher_remove(mem, id) == KeepPositive(SetItem(mem, id, 0))

\* ------------------------------------------- dispatch on the watcher class
add_AlwaysCounts(w, mem, id) == CounterWatcher_add(mem, id)

add(w, mem, id) ==
    IF w = "CounterWatcher" THEN CounterWatcher_add(mem, id) ELSE mem

is_max_OneTryCounts(w, mem, id, max) ==
    CASE w = "EndlessWatcher" -> FALSE
      [] OTHER -> CounterWatcher_is_max(mem, id, max)

is_max_OneTryRetries(w, mem, id, max) ==
    CASE w = "CounterWatcher" -> CounterWatcher_is_max(mem, id, max)
      [] OTHER -> FALSE

is_max_EndlessGivesUp(w, mem, id, max) ==
    CASE w = "CounterWatcher" -> CounterWatcher_is_max(mem, id, max)
      [] OTHER -> TRUE

is_max(w, mem, id, max) ==
    CASE w = "EndlessWatcher" -> FALSE
      [] w = "OneTryWatcher" -> TRUE
      [] OTHER -> CounterWatcher_is_max(mem, id, max)

remove(w, mem, id) ==
    IF w = "CounterWatcher" THEN CounterWatcher_remove(mem, id) ELSE mem

\* The memory after is_max(id) has returned: CounterWatcher.is_max reads
\* self.memory[message_id]; the other classes have no memory to read.
is_max_memory(w, mem, id) ==
    IF w = "CounterWatcher" THEN AfterGetItem(mem, id) ELSE mem

\* The message CounterWatcher.is_max gives to logger.error when a logger is
\* configured and its answer is mx; "none" when nothing is logged.
LogLine(w, lg, mx) ==
    IF w = "CounterWatcher" /\ lg
    THEN (IF mx THEN "Already retried. Skipped."
          ELSE "Error is occured. Pushing back to queue.")
    ELSE "none"

\* A truth value as it is recorded in answer.
Bool(b) == IF b THEN "True" ELSE "False"

\* The history of the calls after is_max(id) answered mx.
Asked(id, mx) ==
    /\ answer' = [answer EXCEPT ![id] = Bool(mx)]
    /\ lastlog' = IF LogLine(watcher, logger, mx) = "none" THEN lastlog
                  ELSE LogLine(watcher, logger, mx)

\* ------------------------------------------------------------------ Init
Init ==
    /\ watcher \in {"EndlessWatcher", "OneTryWatcher", "CounterWatcher"}
    /\ max_tries \in 0..MaxTries
    /\ watcher # "CounterWatcher" => max_tries = 0
    /\ logger \in BOOLEAN
    /\ watcher # "CounterWatcher" => logger = FALSE
    /\ memory = <<>>
    /\ lastlog = "none"
    /\ since = [id \in MsgIds |-> 0]
    /\ removed = [id \in MsgIds |-> FALSE]
    /\ answer = [id \in MsgIds |-> "unset"]
    /\ pc = [s \in ScopeIds |-> "idle"]
    /\ message_id = [s \in ScopeIds |-> 0]
    /\ exc_val = [s \in ScopeIds |-> "unset"]
    /\ pending = [s \in ScopeIds |-> "none"]
    /\ calls = [s \in ScopeIds |-> <<>>]
    /\ wcalls = [s \in ScopeIds |-> <<>>]
    /\ ret = [s \in ScopeIds |-> "unset"]
    /\ raised = [s \in ScopeIds |-> "unset"]
    /\ seen = [s \in ScopeIds |-> -1]
    /\ left = [s \in ScopeIds |-> -1]
    /\ ord = [s \in ScopeIds |-> 0]
    /\ alone = [s \in ScopeIds |-> TRUE]
    /\ events = [s \in ScopeIds |-> <<>>]

\* ------------------------------------------------ WatcherContext.__aexit__
\* "if self.watcher.is_max(...): await self.__reject() else: await
\* self.__nack()": mx is the answer of watcher.is_max.
Retry_Inverted(mx) == IF mx THEN "nack" ELSE "reject"

Retry_NeverGivesUp(mx) == "nack"

Retry(mx) == IF mx THEN "reject" ELSE "nack"

\* The branch of a HandlerException: the message operation chosen, "none"
\* when no operation of the message is invoked.
HandlerBranch_NoReject(e, mx) ==
    IF e = "AckMessage" THEN "ack"
    ELSE IF e = "NackMessage" THEN Retry(mx)
    ELSE "none"

HandlerBranch_NackNoCheck(e, mx) ==
    IF e = "AckMessage" THEN "ack"
    ELSE IF e = "NackMessage" THEN "nack"
    ELSE IF e = "RejectMessage" THEN "reject"
    ELSE "none"

HandlerBranch_RejectChecksMax(e, mx) ==
    IF e = "AckMessage" THEN "ack"
    ELSE IF e \in {"NackMessage", "RejectMessage"} THEN Retry(mx)
    ELSE "none"

HandlerBranch_AckChecksMax(e, mx) ==
    IF e = "AckMessage" THEN (IF mx THEN "reject" ELSE "ack")
    ELSE IF e = "NackMessage" THEN Retry(mx)
    ELSE IF e = "RejectMessage" THEN "reject"
    ELSE "none"

HandlerBranch_BaseClassRejects(e, mx) ==
    IF e = "AckMessage" THEN "ack"
    ELSE IF e = "NackMessage" THEN Retry(mx)
    ELSE "reject"

HandlerBranch(e, mx) ==
    IF e = "AckMessage" THEN "ack"
    ELSE IF e = "NackMessage" THEN Retry(mx)
    ELSE IF e = "RejectMessage" THEN "reject"
    ELSE "none"

\* The message operation the decision tree of __aexit__ chooses for what the
\* handler body ended with.
Branch_SkipAcks(e, mx) ==
    IF e = "None" \/ e = "SkipMessage" THEN "ack"
    ELSE IF IsHandlerException(e) THEN HandlerBranch(e, mx)
    ELSE Retry(mx)

Branch_CancelActsNot(e, mx) ==
    IF e = "None" THEN "ack"
    ELSE IF e \in {"SkipMessage", "CancelledError"} THEN "none"
    ELSE IF IsHandlerException(e) THEN HandlerBranch(e, mx)
    ELSE Retry(mx)

Branch(e, mx) ==
    IF e = "None" THEN "ack"
    ELSE IF e = "SkipMessage" THEN "none"
    ELSE IF IsHandlerException(e) THEN HandlerBranch(e, mx)
    ELSE Retry(mx)

\* Whether the branch taken evaluates watcher.is_max.
ConsultsIsMax(e) ==
    /\ e # "None"
    /\ e # "SkipMessage"
    /\ IsHandlerException(e) => e = "NackMessage"

\* The branch of SkipMessage calls watcher.remove itself, with no message
\* operation.
RemovesDirectly_Never(e) == FALSE

RemovesDirectly(e) == e # "None" /\ e = "SkipMessage"

\* The value __aexit__ returns: True at the end of the HandlerException
\* branch, False at the end of every other branch.
ReturnValue_AlwaysTrue(e) == "True"

ReturnValue_AlwaysFalse(e) == "False"

ReturnValue_SkipToo(e) ==
    IF e # "None" /\ (e = "SkipMessage" \/ IsHandlerException(e))
    THEN "True" ELSE "False"

ReturnValue(e) ==
    IF e # "None" /\ e # "SkipMessage" /\ IsHandlerException(e)
    THEN "True" ELSE "False"

\* What the statement "async with WatcherContext(...)" lets its caller
\* observe: the exception of the body unless __aexit__ returned a true value.
Raised(e, r) == IF e # "None" /\ r # "True" THEN e ELSE "none"

\* __ack and __reject call watcher.remove after the message operation has
\* completed; __nack does not.
RemovesAfter_RejectOnly(op) == op = "reject"

RemovesAfter_Always(op) == op \in {"ack", "nack", "reject"}

RemovesAfter(op) == op \in {"ack", "reject"}

\* Whether the watcher.remove of __ack / __reject runs in the step that
\* invokes the message operation: it is the statement after the await, so it
\* runs there only when the operation completes at once (suspends = FALSE)
\* and runs at the resumption otherwise.
RemovesAtCall_BeforeAwait(op, suspends) == RemovesAfter(op)

RemovesAtCall(op, suspends) == RemovesAfter(op) /\ ~suspends

\* "await call_or_await(self.message.<op>, **self.extra_ack_args)": the
\* operation op of the message is invoked once; cs are the invocations the
\* scope made before.
Invoke_Twice(cs, op) == IF op = "none" THEN cs ELSE cs \o <<op, op>>

Invoke(cs, op) == IF op = "none" THEN cs ELSE Append(cs, op)

\* The watcher methods __aexit__ invokes before it calls (or skips) the
\* message operation.
CallsBefore(e) ==
    (IF ConsultsIsMax(e) THEN <<"is_max">> ELSE <<>>)
        \o (IF RemovesDirectly(e) THEN <<"remove">> ELSE <<>>)

\* What __aexit__ does up to and including the call of the message
\* operation, in the order of its statements: the condition of the branch
\* (watcher.is_max) or the remove of the SkipMessage branch, then the
\* operation op.
ExitEvents_ActsFirst(e, op) == Invoke(<<>>, op) \o CallsBefore(e)

ExitEvents(e, op) == CallsBefore(e) \o Invoke(<<>>, op)

\* ----------------------------------------------------------------- actions
\* Scopes are numbered in the order in which they are entered and message
\* ids in the order of their first delivery.
MayEnter(s, m) ==
    /\ pc[s] = "idle"
    /\ s > 1 => pc[s - 1] # "idle"
    /\ m > 1 => \E t \in ScopeIds : message_id[t] = m - 1

InFlight(t) == pc[t] \in {"entered", "suspended"}

\* WatcherContext(message, watcher) is constructed for a delivery of message
\* id m and __aenter__ runs: watcher.add(message.message_id).
Enter(s, m) ==
    /\ MayEnter(s, m)
    /\ pc' = [pc EXCEPT ![s] = "entered"]
    /\ message_id' = [message_id EXCEPT ![s] = m]
    /\ memory' = add(watcher, memory, m)
    /\ since' = [since EXCEPT ![m] = @ + 1]
    /\ answer' = [answer EXCEPT ![m] = "unset"]
    /\ wcalls' = [wcalls EXCEPT ![s] = Append(@, "add")]
    /\ events' = [events EXCEPT ![s] = Append(@, "add")]
    /\ ord' = [ord EXCEPT
                 ![s] = 1 + Cardinality({t \in ScopeIds : message_id[t] = m})]
    /\ alone' = [t \in ScopeIds |->
                   IF t = s THEN \A u \in ScopeIds :
                                    InFlight(u) => message_id[u] # m
                   ELSE IF InFlight(t) /\ message_id[t] = m THEN FALSE
                   ELSE alone[t]]
    /\ UNCHANGED <<watcher, max_tries, logger, lastlog, removed, exc_val,
                   pending, calls, ret, raised, seen, left>>

\* The return of __aexit__ of scope s, with memory mem: the value it returns
\* and what its caller observes.
Return(s, e, mem) ==
    /\ pc' = [pc EXCEPT ![s] = "done"]
    /\ ret' = [ret EXCEPT ![s] = ReturnValue(e)]
    /\ raised' = [raised EXCEPT ![s] = Raised(e, ReturnValue(e))]
    /\ left' = [left EXCEPT ![s] = Count(mem, message_id[s])]

\* The handler body of scope s ends with e and __aexit__ runs up to its first
\* suspension: it decides, invokes the message operation and, when the
\* operation completes at once (async = FALSE), finishes.
Exit(s, e, async) ==
    /\ pc[s] = "entered"
    /\ LET m == message_id[s]
           mx == is_max(watcher, memory, m, max_tries)
           op == Branch(e, mx)
           suspends == op # "none" /\ async
           removes == RemovesDirectly(e) \/ RemovesAtCall(op, suspends)
           read == IF ConsultsIsMax(e) THEN is_max_memory(watcher, memory, m)
                   ELSE memory
           mem == IF removes THEN remove(watcher, read, m) ELSE read
       IN  /\ op = "none" => ~async
           /\ IF removes
              THEN /\ since' = [since EXCEPT ![m] = 0]
                   /\ removed' = [removed EXCEPT ![m] = TRUE]
                   /\ answer' = [answer EXCEPT ![m] = "unset"]
                   /\ lastlog' =
                          IF ConsultsIsMax(e)
                               /\ LogLine(watcher, logger, mx) # "none"
                          THEN LogLine(watcher, logger, mx) ELSE lastlog
              ELSE /\ UNCHANGED <<since, removed>>
                   /\ IF ConsultsIsMax(e) THEN Asked(m, mx)
                      ELSE UNCHANGED <<answer, lastlog>>
           /\ exc_val' = [exc_val EXCEPT ![s] = e]
           /\ seen' = [seen EXCEPT ![s] = Count(memory, m)]
           /\ calls' = [calls EXCEPT ![s] = Invoke(@, op)]
           /\ wcalls' = [wcalls EXCEPT
                           ![s] = @ \o CallsBefore(e)
                                    \o (IF RemovesAtCall(op, suspends)
                                        THEN <<"remove">> ELSE <<>>)]
           /\ events' = [events EXCEPT
                           ![s] = @ \o ExitEvents(e, op)
                                    \o (IF RemovesAtCall(op, suspends)
                                        THEN <<"remove">> ELSE <<>>)]
           /\ memory' = mem
           /\ IF suspends
              THEN /\ pc' = [pc EXCEPT ![s] = "suspended"]
                   /\ pending' = [pending EXCEPT ![s] = op]
                   /\ UNCHANGED <<ret, raised, left>>
              ELSE /\ Return(s, e, mem)
                   /\ UNCHANGED pending
    /\ UNCHANGED <<watcher, max_tries, logger, message_id, ord, alone>>

\* The message operation scope s awaits completes: __ack and __reject call
\* watcher.remove, and __aexit__ returns.
Resume(s) ==
    /\ pc[s] = "suspended"
    /\ LET m == message_id[s]
           op == pending[s]
           mem == IF RemovesAfter(op) THEN remove(watcher, memory, m)
                  ELSE memory
       IN  /\ memory' = mem
           /\ IF RemovesAfter(op)
              THEN /\ since' = [since EXCEPT ![m] = 0]
                   /\ removed' = [removed EXCEPT ![m] = TRUE]
                   /\ answer' = [answer EXCEPT ![m] = "unset"]
              ELSE UNCHANGED <<since, removed, answer>>
           /\ wcalls' = [wcalls EXCEPT
                           ![s] = IF RemovesAfter(op) THEN Append(@, "remove")
                                  ELSE @]
           /\ events' = [events EXCEPT
                           ![s] = IF RemovesAfter(op) THEN Append(@, "remove")
                                  ELSE @]
           /\ pending' = [pending EXCEPT ![s] = "none"]
           /\ Return(s, exc_val[s], mem)
    /\ UNCHANGED <<watcher, max_tries, logger, lastlog, message_id, exc_val,
                   calls, seen, ord, alone>>

Next ==
    \/ \E s \in ScopeIds, m \in MsgIds : Enter(s, m)
    \/ \E s \in ScopeIds, e \in ExcKinds, async \in BOOLEAN : Exit(s, e, async)
    \/ \E s \in ScopeIds : Resume(s)

Spec == Init /\ [][Next]_vars

\* ------------------------------------- failure of the message operation
\* What the caller of the scope observes when the awaited message operation
\* raises: __ack, __nack, __reject and __aexit__ have no except clause, so
\* the exception of the operation leaves __aexit__ in place of exc_val.
OnFailure_Swallowed(e) == Raised(e, ReturnValue(e))

OnFailure(e) == "OperationError"

Fail_Removes(s) ==
    /\ pc[s] = "suspended"
    /\ LET m == message_id[s]
           op == pending[s]
           mem == IF RemovesAfter(op) THEN remove(watcher, memory, m)
                  ELSE memory
       IN  /\ memory' = mem
           /\ IF RemovesAfter(op)
              THEN /\ since' = [since EXCEPT ![m] = 0]
                   /\ removed' = [removed EXCEPT ![m] = TRUE]
                   /\ answer' = [answer EXCEPT ![m] = "unset"]
                   /\ wcalls' = [wcalls EXCEPT ![s] = Append(@, "remove")]
                   /\ events' = [events EXCEPT ![s] = Append(@, "remove")]
              ELSE UNCHANGED <<since, removed, answer, wcalls, events>>
           /\ left' = [left EXCEPT ![s] = Count(mem, m)]
    /\ pc' = [pc EXCEPT ![s] = "done"]
    /\ pending' = [pending EXCEPT ![s] = "none"]
    /\ ret' = [ret EXCEPT ![s] = "raised"]
    /\ raised' = [raised EXCEPT ![s] = OnFailure(exc_val[s])]
    /\ UNCHANGED <<watcher, max_tries, logger, lastlog, message_id, exc_val,
                   calls, seen, ord, alone>>

\* The message operation scope s awaits raises (at its call or after a
\* suspension): the statement after the await, watcher.remove, is not
\* reached and __aexit__ returns no value.
Fail(s) ==
    /\ pc[s] = "suspended"
    /\ pc' = [pc EXCEPT ![s] = "done"]
    /\ pending' = [pending EXCEPT ![s] = "none"]
    /\ ret' = [ret EXCEPT ![s] = "raised"]
    /\ raised' = [raised EXCEPT ![s] = OnFailure(exc_val[s])]
    /\ left' = [left EXCEPT ![s] = Count(memory, message_id[s])]
    /\ UNCHANGED <<wvars, message_id, exc_val, calls, wcalls, seen, ord,
                   alone, events>>

NextFail ==
    \/ Next
    \/ \E s \in ScopeIds : Fail(s)

\* The scopes with message operations that may fail.
SpecFail == Init /\ [][NextFail]_vars

\* ------------------------------------------- the watcher called directly
\* watcher.add(id), called outside a WatcherContext.
CallAdd(id) ==
    /\ since[id] < MaxAdds
    /\ memory' = add(watcher, memory, id)
    /\ since' = [since EXCEPT ![id] = @ + 1]
    /\ answer' = [answer EXCEPT ![id] = "unset"]
    /\ UNCHANGED <<watcher, max_tries, logger, lastlog, removed, svars>>

\* watcher.is_max(id): memory is read, the answer is returned and the message
\* is logged.
CallIsMax(id) ==
    /\ Asked(id, is_max(watcher, memory, id, max_tries))
    /\ memory' = is_max_memory(watcher, memory, id)
    /\ UNCHANGED <<watcher, max_tries, logger, since, removed, svars>>

\* watcher.remove(id).
CallRemove(id) ==
    /\ memory' = remove(watcher, memory, id)
    /\ since' = [since EXCEPT ![id] = 0]
    /\ removed' = [removed EXCEPT ![id] = TRUE]
    /\ answer' = [answer EXCEPT ![id] = "unset"]
    /\ UNCHANGED <<watcher, max_tries, logger, lastlog, svars>>

NextWatcher ==
    \/ \E id \in MsgIds : CallAdd(id)
    \/ \E id \in MsgIds : CallIsMax(id)
    \/ \E id \in MsgIds : CallRemove(id)

\* Any sequence of calls of add, is_max and remove on one watcher.
SpecWatcher == Init /\ [][NextWatcher]_vars

\* ------------------------------------------------- redelivery of a message
\* The message whose deliveries are followed: the first one delivered, which
\* is the message of the first scope.
Tracked == 1

\* The broker delivers the message of scope s again after the scope has
\* nacked it: a new WatcherContext is constructed for the same message_id and
\* __aenter__ calls watcher.add.  The slot of the exited scope now stands for
\* the new scope.  A message is delivered at most MaxTries + 2 times.
Redeliver(s) ==
    /\ pc[s] = "done"
    /\ calls[s] = <<"nack">>
    /\ ord[s] <= MaxTries + 1
    /\ LET m == message_id[s]
       IN  /\ memory' = add(watcher, memory, m)
           /\ since' = [since EXCEPT ![m] = @ + 1]
           /\ answer' = [answer EXCEPT ![m] = "unset"]
           /\ alone' = [t \in ScopeIds |->
                          IF t = s THEN \A u \in ScopeIds \ {s} :
                                           InFlight(u) => message_id[u] # m
                          ELSE IF InFlight(t) /\ message_id[t] = m THEN FALSE
                          ELSE alone[t]]
    /\ pc' = [pc EXCEPT ![s] = "entered"]
    /\ exc_val' = [exc_val EXCEPT ![s] = "unset"]
    /\ calls' = [calls EXCEPT ![s] = <<>>]
    /\ wcalls' = [wcalls EXCEPT ![s] = <<"add">>]
    /\ events' = [events EXCEPT ![s] = <<"add">>]
    /\ ret' = [ret EXCEPT ![s] = "unset"]
    /\ raised' = [raised EXCEPT ![s] = "unset"]
    /\ seen' = [seen EXCEPT ![s] = -1]
    /\ left' = [left EXCEPT ![s] = -1]
    /\ ord' = [ord EXCEPT ![s] = @ + 1]
    /\ UNCHANGED <<watcher, max_tries, logger, lastlog, removed, message_id,
                   pending>>

\* The first delivery of a message: only one scope at a time holds the
\* tracked message, so no other scope is constructed for it.
Deliver(s, m) ==
    /\ s = 1 \/ m # Tracked
    /\ Enter(s, m)

\* The handler body ends; the handler of the tracked message raises a plain
\* exception on every attempt.
Handle(s, e, async) ==
    /\ message_id[s] = Tracked => e = "Exception"
    /\ Exit(s, e, async)

\* The watcher is a CounterWatcher.
InitRedelivery ==
    /\ Init
    /\ watcher = "CounterWatcher"

NextRedelivery ==
    \/ \E s \in ScopeIds, m \in MsgIds : Deliver(s, m)
    \/ \E s \in ScopeIds, e \in ExcKinds, async \in BOOLEAN :
           Handle(s, e, async)
    \/ \E s \in ScopeIds : Resume(s)
    \/ \E s \in ScopeIds : Redeliver(s)

\* A CounterWatcher, a tracked message that fails on every attempt and is
\* delivered again after every nack, and scopes of other messages.  The
\* event loop runs the handler of the tracked message to its end and
\* completes its message operation, and the broker delivers it again: each
\* of these steps, once possible, stays possible until it is taken.
SpecRedelivery ==
    /\ InitRedelivery
    /\ [][NextRedelivery]_vars
    /\ WF_vars(\E async \in BOOLEAN : Handle(Tracked, "Exception", async))
    /\ WF_vars(Resume(Tracked))
    /\ WF_vars(Redeliver(Tracked))

\* ------------------------------------------------------------ vocabulary
MessageOps == {"ack", "nack", "reject"}

Done(s) == pc[s] = "done"

\* How often scope s invoked the message operation op.
Times(s, op) == Cardinality({i \in 1..Len(calls[s]) : calls[s][i] = op})

\* The answer watcher.is_max(message_id) had when __aexit__ of s began.
ExhaustedAtExit(s) ==
    CASE watcher = "EndlessWatcher" -> FALSE
      [] watcher = "OneTryWatcher" -> TRUE
      [] OTHER -> seen[s] > max_tries

\* Scope s and every earlier scope of its message id ran without overlapping
\* another scope of that id, and the handler body of each ended with e.
AloneRun(s, e) ==
    \A t \in ScopeIds :
        (message_id[t] = message_id[s] /\ ord[t] <= ord[s]) =>
            (alone[t] /\ exc_val[t] = e)

\* ------------------------------------------------------------------- C1
\* C1 as stated: every exit of a scope performs exactly one of ack, nack,
\* reject, on every exit path (SkipMessage included).
C1_EveryExitOneTerminalAction ==
    \A s \in ScopeIds : Done(s) => Len(calls[s]) = 1

\* C1 (amended): every exit of a scope performs exactly one of ack, nack,
\* reject, except the exit on SkipMessage and the exit on a HandlerException
\* that is none of AckMessage, NackMessage, RejectMessage, which perform
\* none; no exit performs more than one.
C1_OneTerminalActionUnlessSkip ==
    \A s \in ScopeIds :
        Done(s) =>
            /\ \A i \in 1..Len(calls[s]) : calls[s][i] \in MessageOps
            /\ Len(calls[s]) =
                   IF exc_val[s] \in {"SkipMessage", "HandlerException"}
                   THEN 0 ELSE 1

C1_Witness ==
    \E s, t \in ScopeIds :
        /\ Done(s) /\ exc_val[s] = "RejectMessage" /\ calls[s] = <<"reject">>
        /\ Done(t) /\ exc_val[t] = "SkipMessage" /\ calls[t] = <<>>

\* ------------------------------------------------------------------- C2
\* C2: in every state, also while the scope is suspended in its message
\* operation and other scopes run, a scope has invoked at most one of ack,
\* nack, reject and none of them twice.
C2_AtMostOneOperation ==
    \A s \in ScopeIds :
        /\ Len(calls[s]) <= 1
        /\ \A op \in MessageOps : Times(s, op) <= 1

C2_Witness ==
    \E s, t \in ScopeIds :
        /\ s # t
        /\ message_id[s] = message_id[t]
        /\ pc[s] = "suspended" /\ Len(calls[s]) = 1
        /\ Done(t) /\ ~alone[t] /\ Len(calls[t]) = 1

\* ------------------------------------------------------------------- C3
\* C3: a scope whose handler body returned normally has called ack exactly
\* once, nack and reject never, and when its exit returns the watcher holds
\* no attempts for its message id.
C3_NormalReturnAcks ==
    \A s \in ScopeIds :
        (Done(s) /\ exc_val[s] = "None") =>
            /\ Times(s, "ack") = 1
            /\ Times(s, "nack") = 0
            /\ Times(s, "reject") = 0
            /\ left[s] = 0

C3_Witness ==
    \E s \in ScopeIds :
        /\ watcher = "CounterWatcher"
        /\ Done(s) /\ exc_val[s] = "None"
        /\ seen[s] >= 1 /\ calls[s] = <<"ack">> /\ left[s] = 0

\* ------------------------------------------------------------------- C4
\* C4: with a CounterWatcher of max_tries = K and a handler that raises a
\* plain exception every time, the j-th of consecutive non-overlapping scopes
\* of a message id nacks for j <= K and rejects for j = K + 1, and the
\* exception propagates out of each of them.
C4_NackThenReject ==
    watcher = "CounterWatcher" =>
        \A s \in ScopeIds :
            (Done(s) /\ AloneRun(s, "Exception") /\ ord[s] <= max_tries + 1) =>
                /\ calls[s] =
                       <<IF ord[s] <= max_tries THEN "nack" ELSE "reject">>
                /\ raised[s] = "Exception"

C4_Witness ==
    \E s, t \in ScopeIds :
        /\ watcher = "CounterWatcher" /\ max_tries = 1
        /\ message_id[s] = message_id[t]
        /\ ord[t] = 1 /\ ord[s] = 2
        /\ Done(t) /\ Done(s) /\ AloneRun(s, "Exception")
        /\ calls[t] = <<"nack">> /\ calls[s] = <<"reject">>
        /\ raised[t] = "Exception" /\ raised[s] = "Exception"

\* ------------------------------------------------------------------- C5
\* C5: when the handler body raises an exception that is no outcome signal,
\* the scope rejects if watcher.is_max is true at exit and nacks otherwise,
\* the exception is not suppressed, and the caller observes it only when the
\* message operation has completed.
C5_FailureIsDisposedThenRaised ==
    \A s \in ScopeIds :
        exc_val[s] \in {"Exception", "CancelledError"} =>
            /\ calls[s] = <<IF ExhaustedAtExit(s) THEN "reject" ELSE "nack">>
            /\ pc[s] = "suspended" => raised[s] = "unset"
            /\ Done(s) => (ret[s] = "False" /\ raised[s] = exc_val[s])

C5_Witness ==
    \E s, t \in ScopeIds :
        /\ watcher = "CounterWatcher"
        /\ Done(s) /\ exc_val[s] = "Exception" /\ ExhaustedAtExit(s)
        /\ calls[s] = <<"reject">> /\ raised[s] = "Exception"
        /\ Done(t) /\ exc_val[t] = "Exception" /\ ~ExhaustedAtExit(t)
        /\ calls[t] = <<"nack">> /\ raised[t] = "Exception"

\* ------------------------------------------------------------------- C6
\* C6: a scope whose handler body raised SkipMessage invokes none of ack,
\* nack, reject, calls on the watcher add at entry and remove at exit and
\* nothing else, and leaves no attempts for its message id, whatever the
\* count was before.
C6_SkipOnlyRemoves ==
    \A s \in ScopeIds :
        (Done(s) /\ exc_val[s] = "SkipMessage") =>
            /\ calls[s] = <<>>
            /\ wcalls[s] = <<"add", "remove">>
            /\ left[s] = 0

C6_Witness ==
    \E s \in ScopeIds :
        /\ watcher = "CounterWatcher"
        /\ Done(s) /\ exc_val[s] = "SkipMessage"
        /\ seen[s] >= 2 /\ calls[s] = <<>> /\ left[s] = 0

\* ------------------------------------------------------------------- C7
\* C7: a SkipMessage raised by the handler body is suppressed by the exit of
\* the scope: the caller of the scope does not observe it.
C7_SkipIsSuppressed ==
    \A s \in ScopeIds :
        (Done(s) /\ exc_val[s] = "SkipMessage") =>
            (ret[s] = "True" /\ raised[s] = "none")

\* C7 (amended): a SkipMessage raised by the handler body is not suppressed
\* by the exit of the scope: __aexit__ returns False and the caller of the
\* scope observes the SkipMessage, after watcher.remove has been called.
C7_SkipPropagates ==
    \A s \in ScopeIds :
        (Done(s) /\ exc_val[s] = "SkipMessage") =>
            /\ ret[s] = "False"
            /\ raised[s] = "SkipMessage"
            /\ wcalls[s] = <<"add", "remove">>

C7_Witness ==
    \E s \in ScopeIds :
        /\ Done(s) /\ exc_val[s] = "SkipMessage"
        /\ ret[s] = "False" /\ raised[s] = "SkipMessage"

\* ------------------------------------------------------------------- C8
\* C8: AckMessage, NackMessage and RejectMessage are suppressed once the
\* scope has acted on them: __aexit__ returns True and the caller observes no
\* exception, whichever message operation was chosen; before the operation
\* has completed the caller observes nothing.
C8_SignalsAreSuppressed ==
    \A s \in ScopeIds :
        exc_val[s] \in {"AckMessage", "NackMessage", "RejectMessage"} =>
            /\ Len(calls[s]) = 1
            /\ pc[s] = "suspended" => raised[s] = "unset"
            /\ Done(s) => (ret[s] = "True" /\ raised[s] = "none")

C8_Witness ==
    \E s, t \in ScopeIds :
        /\ Done(s) /\ exc_val[s] = "NackMessage" /\ calls[s] = <<"reject">>
        /\ ret[s] = "True" /\ raised[s] = "none"
        /\ Done(t) /\ exc_val[t] = "AckMessage" /\ calls[t] = <<"ack">>
        /\ ret[t] = "True" /\ raised[t] = "none"

\* ------------------------------------------------------------------- C9
\* C9: a scope whose handler body raised NackMessage rejects if
\* watcher.is_max is true at exit and nacks otherwise; so with a
\* CounterWatcher of max_tries = K the j-th of consecutive non-overlapping
\* scopes of a message id that all end with NackMessage nacks for j <= K and
\* rejects for j = K + 1.
C9_NackSignalRetriesUntilMax ==
    \A s \in ScopeIds :
        (pc[s] \in {"suspended", "done"} /\ exc_val[s] = "NackMessage") =>
            /\ calls[s] = <<IF ExhaustedAtExit(s) THEN "reject" ELSE "nack">>
            /\ (/\ watcher = "CounterWatcher"
                /\ AloneRun(s, "NackMessage")
                /\ ord[s] <= max_tries + 1) =>
                   calls[s] =
                       <<IF ord[s] <= max_tries THEN "nack" ELSE "reject">>

C9_Witness ==
    \E s, t \in ScopeIds :
        /\ watcher = "CounterWatcher" /\ max_tries = 1
        /\ message_id[s] = message_id[t]
        /\ ord[t] = 1 /\ ord[s] = 2
        /\ Done(t) /\ Done(s) /\ AloneRun(s, "NackMessage")
        /\ calls[t] = <<"nack">> /\ calls[s] = <<"reject">>

\* ------------------------------------------------------------------ C10
\* C10: a scope whose handler body raised RejectMessage calls reject exactly
\* once, ack and nack never, does not ask watcher.is_max, whatever the
\* watcher class and the count of attempts, and when its exit returns the
\* watcher holds no attempts for its message id.
C10_RejectSignalRejects ==
    \A s \in ScopeIds :
        (pc[s] \in {"suspended", "done"} /\ exc_val[s] = "RejectMessage") =>
            /\ Times(s, "reject") = 1
            /\ Times(s, "ack") = 0
            /\ Times(s, "nack") = 0
            /\ \A i \in 1..Len(wcalls[s]) : wcalls[s][i] # "is_max"
            /\ Done(s) => left[s] = 0

C10_Witness ==
    \E s \in ScopeIds :
        /\ watcher = "CounterWatcher"
        /\ Done(s) /\ exc_val[s] = "RejectMessage"
        /\ seen[s] >= 1 /\ ~ExhaustedAtExit(s)
        /\ calls[s] = <<"reject">> /\ left[s] = 0

\* ------------------------------------------------------------------ C11
\* C11: a scope whose handler body raised AckMessage does what a scope whose
\* handler body returned does: it calls ack once and then watcher.remove,
\* without asking watcher.is_max, also when the count of its message id is
\* above max_tries.
C11_AckSignalAcks ==
    \A s \in ScopeIds :
        (pc[s] \in {"suspended", "done"} /\ exc_val[s] = "AckMessage") =>
            /\ calls[s] = <<"ack">>
            /\ pc[s] = "suspended" => wcalls[s] = <<"add">>
            /\ Done(s) => (wcalls[s] = <<"add", "remove">> /\ left[s] = 0)
            /\ \A t \in ScopeIds :
                   (pc[t] = pc[s] /\ exc_val[t] = "None") =>
                       (calls[t] = calls[s] /\ wcalls[t] = wcalls[s])

C11_Witness ==
    \E s, t \in ScopeIds :
        /\ watcher = "CounterWatcher"
        /\ Done(s) /\ exc_val[s] = "AckMessage"
        /\ seen[s] > max_tries
        /\ calls[s] = <<"ack">> /\ left[s] = 0
        /\ Done(t) /\ exc_val[t] = "None"

\* ------------------------------------------------------------------ C12
\* C12: a scope calls ack only if its handler body returned normally or
\* raised AckMessage; a scope whose handler body raised NackMessage,
\* RejectMessage, SkipMessage or any other exception never calls ack.
C12_AckOnlyOnSuccess ==
    \A s \in ScopeIds :
        Times(s, "ack") > 0 => exc_val[s] \in {"None", "AckMessage"}

C12_Witness ==
    \E s, t \in ScopeIds :
        /\ Done(s) /\ exc_val[s] = "SkipMessage" /\ Times(s, "ack") = 0
        /\ Done(t) /\ exc_val[t] = "Exception" /\ Times(t, "ack") = 0
        /\ calls[t] = <<"reject">>

\* ------------------------------------------------------------------ C13
\* C13: on a CounterWatcher with max_tries = K, for every message id, after N
\* calls of add(id) and no remove(id), is_max(id) is true if and only if
\* N > K.
C13_ExhaustedIffMoreThanMax ==
    watcher = "CounterWatcher" =>
        \A id \in MsgIds :
            ~removed[id] =>
                /\ is_max(watcher, memory, id, max_tries)
                       <=> since[id] > max_tries
                /\ answer[id] \in {"unset", Bool(since[id] > max_tries)}

C13_Witness ==
    \E id, other \in MsgIds :
        /\ watcher = "CounterWatcher" /\ max_tries = 1
        /\ ~removed[id] /\ since[id] = 2 /\ answer[id] = "True"
        /\ ~removed[other] /\ since[other] = 1 /\ answer[other] = "False"

\* ------------------------------------------------------------------ C14
\* C14: on a CounterWatcher, after remove(id) one add(id) gives the count 1
\* and the answer of is_max(id) that a never seen id has after one add,
\* whatever was added before the remove.
C14_RemoveThenAddIsFresh ==
    watcher = "CounterWatcher" =>
        \A id \in MsgIds :
            (removed[id] /\ since[id] = 1) =>
                LET fresh == CounterWatcher_add(<<>>, id)
                    first == is_max(watcher, fresh, id, max_tries)
                IN  /\ Count(memory, id) = 1
                    /\ Count(memory, id) = Count(fresh, id)
                    /\ is_max(watcher, memory, id, max_tries) = first
                    /\ answer[id] \in {"unset", Bool(first)}

C14_Witness ==
    \E id \in MsgIds :
        /\ watcher = "CounterWatcher" /\ max_tries = 1
        /\ removed[id] /\ since[id] = 1 /\ answer[id] = "False"
        /\ Count(memory, id) = 1

\* ------------------------------------------------------------------ C15
\* C15: an EndlessWatcher answers is_max with false for every message id,
\* after any sequence of add and remove and before any call, and add and
\* remove change no state.
C15_EndlessNeverExhausted ==
    watcher = "EndlessWatcher" =>
        /\ memory = <<>>
        /\ \A id \in MsgIds :
               /\ ~is_max(watcher, memory, id, max_tries)
               /\ answer[id] \in {"unset", "False"}

C15_Witness ==
    \E id, other \in MsgIds :
        /\ watcher = "EndlessWatcher"
        /\ since[id] = MaxAdds /\ answer[id] = "False"
        /\ removed[other] /\ since[other] = 0 /\ answer[other] = "False"

\* ------------------------------------------------------------------ C16
\* C16: a OneTryWatcher answers is_max with true for every message id, on
\* the first check before any add and after any sequence of add and remove,
\* and add and remove change no state.
C16_OneTryAlwaysExhausted ==
    watcher = "OneTryWatcher" =>
        /\ memory = <<>>
        /\ \A id \in MsgIds :
               /\ is_max(watcher, memory, id, max_tries)
               /\ answer[id] \in {"unset", "True"}

C16_Witness ==
    \E id, other \in MsgIds :
        /\ watcher = "OneTryWatcher"
        /\ ~removed[id] /\ since[id] = 0 /\ answer[id] = "True"
        /\ removed[other] /\ since[other] = 1 /\ answer[other] = "True"

\* ------------------------------------------------------------------ C17
\* C17: with a CounterWatcher, a scope whose message id no other scope has,
\* running concurrently with the scopes of other ids under any interleaving,
\* sees the count 1 from its entry to its exit decision, decides as a scope
\* that runs alone on a new watcher decides, and leaves the count such a
\* scope leaves (0 after watcher.remove, 1 otherwise): the add and remove of
\* another id never change the count of its id.
C17_DistinctIdsDoNotInterfere ==
    watcher = "CounterWatcher" =>
        \A s \in ScopeIds :
            (/\ pc[s] # "idle"
             /\ \A t \in ScopeIds \ {s} : message_id[t] # message_id[s]) =>
                LET m == message_id[s]
                    fresh == CounterWatcher_add(<<>>, m)
                    op == Branch(exc_val[s],
                                 is_max(watcher, fresh, m, max_tries))
                IN  /\ pc[s] = "entered" => Count(memory, m) = 1
                    /\ pc[s] \in {"suspended", "done"} =>
                           /\ seen[s] = 1
                           /\ calls[s] = IF op = "none" THEN <<>> ELSE <<op>>
                    /\ pc[s] = "suspended" => Count(memory, m) = 1
                    /\ Done(s) =>
                           /\ left[s] = IF RemovesDirectly(exc_val[s])
                                             \/ RemovesAfter(op)
                                        THEN 0 ELSE 1
                           /\ Count(memory, m) = left[s]

C17_Witness ==
    \E s, t \in ScopeIds :
        /\ watcher = "CounterWatcher" /\ max_tries = 0
        /\ message_id[s] # message_id[t]
        /\ pc[s] = "suspended" /\ exc_val[s] = "Exception"
        /\ calls[s] = <<"reject">>
        /\ pc[t] = "suspended" /\ exc_val[t] = "None"

\* ------------------------------------------------------------------ C18
\* C18: with a CounterWatcher, the remove of one scope never erases the
\* attempt recorded by another scope of the same message id that is still in
\* flight: at the exit decision of every scope the count of its id is at
\* least 1.
C18_CountAtExitAtLeastOne ==
    watcher = "CounterWatcher" =>
        \A s \in ScopeIds :
            pc[s] \in {"suspended", "done"} => seen[s] >= 1

\* ------------------------------------------------------------------ C19
\* C19: when the ack, nack or reject operation of the message fails, the
\* scope does not catch the failure: its caller observes the failure of the
\* operation, and the scope has invoked that one operation and no other.
C19_OperationFailurePropagates ==
    \A s \in ScopeIds :
        ret[s] = "raised" =>
            /\ Done(s)
            /\ raised[s] = "OperationError"
            /\ Len(calls[s]) = 1

C19_Witness ==
    \E s, t \in ScopeIds :
        /\ Done(s) /\ ret[s] = "raised" /\ raised[s] = "OperationError"
        /\ exc_val[s] = "Exception" /\ calls[s] = <<"nack">>
        /\ Done(t) /\ ret[t] = "raised" /\ raised[t] = "OperationError"
        /\ exc_val[t] = "None" /\ calls[t] = <<"ack">>

\* ------------------------------------------------------------------ C20
\* C20: whether a logger is configured or not, a CounterWatcher holds for
\* every id the number of adds since the last remove, answers is_max with
\* "that number is above max_tries", and a scope that asks is_max rejects on
\* true and nacks on false: counts, answers and message operations are one
\* function of the calls made, in which the logger does not occur; the
\* logger only receives a message.
C20_LoggerDoesNotDecide ==
    watcher = "CounterWatcher" =>
        /\ \A id \in MsgIds :
               /\ Count(memory, id) = since[id]
               /\ answer[id] \in {"unset", Bool(since[id] > max_tries)}
        /\ \A s \in ScopeIds :
               (pc[s] \in {"suspended", "done"}
                    /\ ConsultsIsMax(exc_val[s])) =>
                   calls[s] =
                       <<IF seen[s] > max_tries THEN "reject" ELSE "nack">>
        /\ ~logger => lastlog = "none"

C20_Witness ==
    \E s, t \in ScopeIds :
        /\ watcher = "CounterWatcher" /\ logger
        /\ message_id[s] = message_id[t]
        /\ Done(t) /\ exc_val[t] = "Exception" /\ calls[t] = <<"nack">>
        /\ pc[s] = "suspended" /\ exc_val[s] = "NackMessage"
        /\ calls[s] = <<"reject">>
        /\ lastlog = "Already retried. Skipped."

\* ------------------------------------------------------------------ C21
\* C21: with a CounterWatcher, a scope that exits with nack does not call
\* watcher.remove: its exit leaves the count of its message id as it was at
\* the exit decision, so the next scope entered for the id has a count one
\* more than the nacked scope had.
C21_NackKeepsCount ==
    watcher = "CounterWatcher" =>
        \A s \in ScopeIds :
            (Done(s) /\ calls[s] = <<"nack">>) =>
                /\ \A i \in 1..Len(wcalls[s]) : wcalls[s][i] # "remove"
                /\ alone[s] => (seen[s] >= 1 /\ left[s] = seen[s])
                /\ \A t \in ScopeIds :
                       (/\ message_id[t] = message_id[s]
                        /\ ord[t] = ord[s] + 1
                        /\ alone[s] /\ alone[t]) =>
                           /\ pc[t] = "entered" =>
                                  Count(memory, message_id[t]) = seen[s] + 1
                           /\ pc[t] \in {"suspended", "done"} =>
                                  seen[t] = seen[s] + 1

C21_Witness ==
    \E s, t \in ScopeIds :
        /\ watcher = "CounterWatcher" /\ max_tries = 1
        /\ message_id[t] = message_id[s] /\ ord[s] = 1 /\ ord[t] = 2
        /\ Done(s) /\ calls[s] = <<"nack">> /\ seen[s] = 1 /\ left[s] = 1
        /\ alone[s] /\ alone[t]
        /\ pc[t] = "entered" /\ Count(memory, message_id[t]) = 2

\* ------------------------------------------------------------------ C22
\* C22: a scope that acks or rejects calls watcher.remove only after the
\* message operation has completed: while the operation is suspended the
\* scope has not called remove and, with a CounterWatcher, the count of its
\* id is still the count of the exit decision (no other scope of the id
\* having run meanwhile); once the exit has returned, remove is the last and
\* only remove of the scope and the count was 0 at the return.
C22_RemoveAfterCompletion ==
    \A s \in ScopeIds :
        /\ (pc[s] = "suspended" /\ pending[s] \in {"ack", "reject"}) =>
               /\ \A i \in 1..Len(wcalls[s]) : wcalls[s][i] # "remove"
               /\ (watcher = "CounterWatcher" /\ alone[s]) =>
                      (seen[s] >= 1 /\ Count(memory, message_id[s]) = seen[s])
        /\ (Done(s) /\ Len(calls[s]) = 1 /\ calls[s][1] \in {"ack", "reject"}) =>
               /\ wcalls[s][Len(wcalls[s])] = "remove"
               /\ Cardinality({i \in 1..Len(wcalls[s]) :
                                  wcalls[s][i] = "remove"}) = 1
               /\ left[s] = 0

C22_Witness ==
    \E s, t \in ScopeIds :
        /\ watcher = "CounterWatcher" /\ max_tries = 0
        /\ pc[s] = "suspended" /\ pending[s] = "reject" /\ alone[s]
        /\ seen[s] = 1 /\ Count(memory, message_id[s]) = 1
        /\ wcalls[s] = <<"add", "is_max">>
        /\ Done(t) /\ calls[t] = <<"ack">> /\ wcalls[t] = <<"add", "remove">>
        /\ left[t] = 0

\* ------------------------------------------------------------------ C23
\* C23: in every scope watcher.add is the first thing done and is done once;
\* between the entry and the exit decision the scope has decided nothing and
\* invoked no message operation; the query watcher.is_max of the exit
\* decision comes before the message operation, and a message operation is
\* invoked only after the exit decision has been made.
C23_AddThenDecisionThenAction ==
    \A s \in ScopeIds :
        LET ev == events[s]
        IN  /\ pc[s] = "idle" => (ev = <<>> /\ calls[s] = <<>>)
            /\ pc[s] # "idle" =>
                   /\ ev[1] = "add"
                   /\ Cardinality({i \in 1..Len(ev) : ev[i] = "add"}) = 1
            /\ pc[s] = "entered" =>
                   /\ ev = <<"add">>
                   /\ exc_val[s] = "unset" /\ seen[s] = -1
                   /\ calls[s] = <<>>
            /\ \A j \in 1..Len(ev) :
                   ev[j] \in MessageOps =>
                       /\ j > 1
                       /\ exc_val[s] # "unset" /\ seen[s] # -1
                       /\ \A i \in 1..Len(ev) : ev[i] = "is_max" => i < j
                       /\ calls[s] = <<ev[j]>>

\* A scope of one message has asked is_max and nacked while the scope of
\* another message, entered before it, has not reached its exit.
C23_Witness ==
    \E s, t \in ScopeIds :
        /\ s < t /\ message_id[s] # message_id[t]
        /\ pc[s] = "entered"
        /\ Done(t) /\ events[t] = <<"add", "is_max", "nack">>

\* ------------------------------------------------------------------ C24
\* C24: a scope calls reject if and only if its handler body raised
\* RejectMessage, or raised NackMessage or an exception that is no signal
\* while watcher.is_max was true at the exit; it calls nack if and only if
\* its handler body raised NackMessage or an exception that is no signal
\* while watcher.is_max was false at the exit.
C24_ExhaustionTurnsNackIntoReject ==
    \A s \in ScopeIds :
        pc[s] \in {"suspended", "done"} =>
            LET retried ==
                    exc_val[s] \in {"NackMessage", "Exception", "CancelledError"}
            IN  /\ Times(s, "reject") > 0 <=>
                       \/ exc_val[s] = "RejectMessage"
                       \/ retried /\ ExhaustedAtExit(s)
                /\ Times(s, "nack") > 0 <=> (retried /\ ~ExhaustedAtExit(s))

C24_Witness ==
    \E s, t \in ScopeIds :
        /\ watcher = "CounterWatcher" /\ max_tries = 1
        /\ Done(s) /\ exc_val[s] = "NackMessage" /\ ~ExhaustedAtExit(s)
        /\ calls[s] = <<"nack">>
        /\ Done(t) /\ exc_val[t] = "Exception" /\ ExhaustedAtExit(t)
        /\ calls[t] = <<"reject">>

\* ------------------------------------------------------------------ C25
\* C25: when the task is cancelled in the handler body, __aexit__ takes the
\* branch of an exception that is no signal, as for any other such
\* exception: it rejects if watcher.is_max is true and nacks otherwise, and
\* returns False, so that the cancellation reaches the caller.
C25_CancellationIsUnhandledException ==
    /\ \A mx \in BOOLEAN :
           /\ Branch("CancelledError", mx) = Branch("Exception", mx)
           /\ Branch("CancelledError", mx) = Retry(mx)
    /\ ReturnValue("CancelledError") = ReturnValue("Exception")
    /\ \A s \in ScopeIds :
           (pc[s] \in {"suspended", "done"}
                /\ exc_val[s] = "CancelledError") =>
               /\ calls[s] = <<IF ExhaustedAtExit(s) THEN "reject" ELSE "nack">>
               /\ events[s][2] = "is_max"
               /\ Done(s) =>
                      (ret[s] = "False" /\ raised[s] = "CancelledError")

C25_Witness ==
    \E s, t \in ScopeIds :
        /\ watcher = "CounterWatcher"
        /\ Done(s) /\ exc_val[s] = "CancelledError" /\ ~ExhaustedAtExit(s)
        /\ calls[s] = <<"nack">> /\ raised[s] = "CancelledError"
        /\ Done(t) /\ exc_val[t] = "CancelledError" /\ ExhaustedAtExit(t)
        /\ calls[t] = <<"reject">> /\ raised[t] = "CancelledError"

\* ------------------------------------------------------------------ C26
\* A step with no add and no remove leaves memory as it was.
C26_IsMaxLeavesMemory ==
    (since' = since /\ removed' = removed) => memory' = memory

\* The answer recorded since the last add or remove of an id is the answer a
\* further call of is_max returns.
C26_IsMaxRepeats ==
    \A id \in MsgIds :
        answer[id] # "unset" =>
            answer[id] = Bool(is_max(watcher, memory, id, max_tries))

\* C26: is_max is a pure query on every watcher class: a call of it, for an
\* id that was added or for an id never seen, leaves memory as it was (no
\* count changes, no key is created), and as long as neither add nor remove
\* of the id is called every further call returns what the last call
\* returned.
C26_IsMaxIsPureQuery == []C26_IsMaxRepeats /\ [][C26_IsMaxLeavesMemory]_vars

C26_Witness ==
    \E id, other \in MsgIds :
        /\ watcher = "CounterWatcher" /\ max_tries = 1
        /\ since[id] = 2 /\ answer[id] = "True"
        /\ DOMAIN memory = {id} /\ memory[id] = 2
        /\ ~removed[other] /\ since[other] = 0 /\ answer[other] = "False"

\* ------------------------------------------------------------------ C27
\* C27 as stated: CounterWatcher.remove(id) sets the entry of id to zero and
\* does not delete it: after remove the id is still a key of memory, with
\* count 0.
C27_RemoveKeepsKey ==
    watcher = "CounterWatcher" =>
        \A id \in MsgIds :
            (removed[id] /\ since[id] = 0) =>
                (id \in DOMAIN memory /\ memory[id] = 0)

\* C27 (amended): CounterWatcher.remove(id) deletes the entry of id: after
\* remove the id is no key of memory and its count reads as 0; the keys of
\* memory are the ids added since their last remove, so memory does not grow
\* with the number of ids ever added.
C27_RemoveDeletesKey ==
    watcher = "CounterWatcher" =>
        /\ \A id \in MsgIds :
               (removed[id] /\ since[id] = 0) =>
                   (id \notin DOMAIN memory /\ Count(memory, id) = 0)
        /\ DOMAIN memory = {id \in MsgIds : since[id] > 0}

C27_Witness ==
    \E id, other \in MsgIds :
        /\ watcher = "CounterWatcher"
        /\ removed[id] /\ since[id] = 0 /\ id \notin DOMAIN memory
        /\ removed[other] /\ since[other] = 1 /\ DOMAIN memory = {other}

\* ------------------------------------------------------------------ C28
\* What a step does to the count of each id of a CounterWatcher: nothing, or
\* plus exactly 1 in a step in which a scope of the id calls watcher.add, or
\* to zero in a step in which a scope of the id calls watcher.remove.
C28_CountStep ==
    watcher = "CounterWatcher" =>
        \A id \in MsgIds :
            LET before == Count(memory, id)
                after == Count(memory', id)
                Last(ev) == ev[Len(ev)]
            IN  \/ after = before /\ since'[id] = since[id]
                \/ /\ after = before + 1
                   /\ since'[id] = since[id] + 1
                   /\ \E s \in ScopeIds :
                          /\ message_id'[s] = id
                          /\ events'[s] = Append(events[s], "add")
                \/ /\ after = 0
                   /\ since'[id] = 0 /\ removed'[id]
                   /\ \E s \in ScopeIds :
                          /\ message_id[s] = id
                          /\ Len(events'[s]) > Len(events[s])
                          /\ Last(events'[s]) = "remove"

\* C28: in a CounterWatcher the count of every message id changes only
\* through add (plus exactly 1) and remove (to zero), under any interleaving
\* of scopes: between an add and the next remove of the id the count never
\* decreases.
C28_CountChangesByAddAndRemove == [][C28_CountStep]_vars

C28_Witness ==
    \E s, t \in ScopeIds :
        /\ watcher = "CounterWatcher"
        /\ message_id[s] = message_id[t] /\ ~alone[s] /\ ~alone[t]
        /\ Done(s) /\ calls[s] = <<"ack">> /\ seen[s] = 2 /\ left[s] = 0
        /\ Done(t) /\ calls[t] = <<"nack">> /\ seen[t] = 0 /\ left[t] = 0

\* ------------------------------------------------------------------ C29
\* C29: with a OneTryWatcher the first failure of a message is final: every
\* scope whose handler body raised NackMessage or an exception that is no
\* signal calls reject, the first scope of a message id included, and no
\* scope ever calls nack.
C29_OneTryRejectsEveryFailure ==
    watcher = "OneTryWatcher" =>
        \A s \in ScopeIds :
            /\ Times(s, "nack") = 0
            /\ (pc[s] \in {"suspended", "done"}
                     /\ exc_val[s] \in
                            {"NackMessage", "Exception", "CancelledError"}) =>
                   calls[s] = <<"reject">>

C29_Witness ==
    \E s, t \in ScopeIds :
        /\ watcher = "OneTryWatcher"
        /\ Done(s) /\ ord[s] = 1 /\ exc_val[s] = "Exception"
        /\ calls[s] = <<"reject">> /\ raised[s] = "Exception"
        /\ Done(t) /\ ord[t] = 1 /\ exc_val[t] = "NackMessage"
        /\ calls[t] = <<"reject">>

\* ------------------------------------------------------------------ C30
\* C30: with an EndlessWatcher every scope whose handler body raised
\* NackMessage or an exception that is no signal calls nack, however many
\* scopes of the same message id failed before it, and a scope calls reject
\* only if its handler body raised RejectMessage.
C30_EndlessNacksEveryFailure ==
    watcher = "EndlessWatcher" =>
        \A s \in ScopeIds :
            /\ Times(s, "reject") > 0 => exc_val[s] = "RejectMessage"
            /\ (pc[s] \in {"suspended", "done"}
                     /\ exc_val[s] \in
                            {"NackMessage", "Exception", "CancelledError"}) =>
                   calls[s] = <<"nack">>

C30_Witness ==
    \E s, t \in ScopeIds :
        /\ watcher = "EndlessWatcher"
        /\ message_id[s] = message_id[t]
        /\ ord[s] = NScopes - 1 /\ ord[t] = NScopes
        /\ Done(s) /\ exc_val[s] = "Exception" /\ calls[s] = <<"nack">>
        /\ Done(t) /\ exc_val[t] = "NackMessage" /\ calls[t] = <<"nack">>

\* ------------------------------------------------------------------ C31
\* C31: with a CounterWatcher, a message that is delivered again (same
\* message id, one scope at a time) after every nack and whose handler raises
\* a plain exception on every attempt is eventually rejected, however the
\* scopes of other message ids interleave with its attempts: it is not
\* nacked forever.
C31_EventuallyRejected ==
    (pc[Tracked] # "idle") ~>
        (Done(Tracked) /\ calls[Tracked] = <<"reject">>)

C31_Witness ==
    \E t \in ScopeIds :
        /\ max_tries = 1
        /\ Done(Tracked) /\ calls[Tracked] = <<"reject">>
        /\ ord[Tracked] = 2 /\ seen[Tracked] = 2
        /\ message_id[t] # Tracked /\ ord[t] = 2 /\ pc[t] = "suspended"

\* ------------------------------------------------------------------ C32
\* C32: with a CounterWatcher of max_tries = K, a scope turns a failure
\* (NackMessage or an exception that is no signal) into reject only if at
\* least K nacks have been performed for its message id since the last
\* remove of the id, also when several scopes of the id are in flight at
\* once.  The nacks counted here are all the nacks of the id so far, which
\* are at least those since the last remove.
C32_RejectOnlyAfterMaxNacks ==
    watcher = "CounterWatcher" =>
        \A s \in ScopeIds :
            (/\ pc[s] \in {"suspended", "done"}
             /\ exc_val[s] \in {"NackMessage", "Exception", "CancelledError"}
             /\ calls[s] = <<"reject">>) =>
                Cardinality({t \in ScopeIds \ {s} :
                                /\ message_id[t] = message_id[s]
                                /\ calls[t] = <<"nack">>}) >= max_tries

\* ------------------------------------------------------------------ C33
\* C33: when the ack or reject operation of the message fails, the scope
\* does not call watcher.remove: with a CounterWatcher the count of its id
\* is, when the failure leaves __aexit__, the count of the exit decision, and
\* the next scope entered for the id counts on from it.
C33_FailedOperationKeepsCount ==
    \A s \in ScopeIds :
        (/\ ret[s] = "raised"
         /\ Len(calls[s]) = 1 /\ calls[s][1] \in {"ack", "reject"}) =>
            /\ \A i \in 1..Len(wcalls[s]) : wcalls[s][i] # "remove"
            /\ (watcher = "CounterWatcher" /\ alone[s]) =>
                   /\ seen[s] >= 1 /\ left[s] = seen[s]
                   /\ \A t \in ScopeIds :
                          (/\ message_id[t] = message_id[s]
                           /\ ord[t] = ord[s] + 1
                           /\ alone[t]) =>
                              /\ pc[t] = "entered" =>
                                     Count(memory, message_id[t]) = seen[s] + 1
                              /\ pc[t] \in {"suspended", "done"} =>
                                     seen[t] = seen[s] + 1

C33_Witness ==
    \E s, t \in ScopeIds :
        /\ watcher = "CounterWatcher"
        /\ message_id[t] = message_id[s] /\ ord[s] = 1 /\ ord[t] = 2
        /\ Done(s) /\ ret[s] = "raised" /\ calls[s] = <<"ack">>
        /\ seen[s] = 1 /\ left[s] = 1 /\ alone[s] /\ alone[t]
        /\ pc[t] = "entered" /\ Count(memory, message_id[t]) = 2

\* ------------------------------------------------------------------ C34
\* What a scope does with a OneTryWatcher, by what its handler body ended
\* with: the message operation ("none" for no operation).
C34_OneTryAction(e) ==
    CASE e \in {"None", "AckMessage"} -> "ack"
      [] e \in {"NackMessage", "RejectMessage", "Exception",
                "CancelledError"} -> "reject"
      [] OTHER -> "none"

\* What the caller of a scope observes, by what the handler body ended with:
\* nothing after a normal return and after a HandlerException, the exception
\* otherwise.
C34_Observed(e) ==
    IF e = "None" \/ IsHandlerException(e) THEN "none" ELSE e

\* C34: for scopes that do not overlap and any outcomes of the handler, a
\* CounterWatcher with max_tries = 0 gives the message operations and the
\* suppressed / propagated exceptions that a OneTryWatcher gives: with either
\* of them every scope does what C34_OneTryAction and C34_Observed say, so
\* every NackMessage and every plain failure is rejected on the first
\* attempt.
C34_ZeroTriesIsOneTry ==
    (watcher = "OneTryWatcher"
         \/ (watcher = "CounterWatcher" /\ max_tries = 0)) =>
        \A s \in ScopeIds :
            (pc[s] \in {"suspended", "done"} /\ alone[s]) =>
                LET op == C34_OneTryAction(exc_val[s])
                IN  /\ calls[s] = IF op = "none" THEN <<>> ELSE <<op>>
                    /\ Done(s) => raised[s] = C34_Observed(exc_val[s])

C34_Witness ==
    \E s, t \in ScopeIds :
        /\ watcher = "CounterWatcher" /\ max_tries = 0
        /\ message_id[s] = message_id[t] /\ ord[s] = 1 /\ ord[t] = 2
        /\ alone[s] /\ alone[t]
        /\ Done(s) /\ exc_val[s] = "Exception" /\ calls[s] = <<"reject">>
        /\ raised[s] = "Exception"
        /\ Done(t) /\ exc_val[t] = "NackMessage" /\ calls[t] = <<"reject">>
        /\ raised[t] = "none"

\* ------------------------------------------------------------------ C35
\* C35: in every state of a CounterWatcher every id stored in memory has a
\* count of at least 1; so when every entered scope has exited with ack,
\* reject or SkipMessage (none is in flight, none has nacked or exited
\* without an operation on a HandlerException), memory is empty.
C35_StoredCountsArePositive ==
    watcher = "CounterWatcher" =>
        /\ \A id \in DOMAIN memory : memory[id] >= 1
        /\ (\A s \in ScopeIds :
                \/ pc[s] = "idle"
                \/ /\ Done(s)
                   /\ \/ calls[s] \in {<<"ack">>, <<"reject">>}
                      \/ exc_val[s] = "SkipMessage") =>
               memory = <<>>

C35_Witness ==
    \E s, t \in ScopeIds :
        /\ watcher = "CounterWatcher"
        /\ message_id[s] = message_id[t]
        /\ Done(s) /\ calls[s] = <<"reject">> /\ seen[s] = 2
        /\ Done(t) /\ exc_val[t] = "SkipMessage" /\ seen[t] = 0
        /\ memory = <<>>

\* ------------------------------------------------------------------ C36
\* C36: a HandlerException that is none of AckMessage, NackMessage,
\* RejectMessage is suppressed by the exit of the scope, which invokes none
\* of ack, nack, reject and does not call watcher.remove: the count of the
\* message id stays as it was after the entry, and the next scope of the id
\* counts on from it.
C36_BaseHandlerExceptionDoesNothing ==
    \A s \in ScopeIds :
        (Done(s) /\ exc_val[s] = "HandlerException") =>
            /\ ret[s] = "True" /\ raised[s] = "none"
            /\ calls[s] = <<>>
            /\ wcalls[s] = <<"add">>
            /\ (watcher = "CounterWatcher" /\ alone[s]) =>
                   /\ seen[s] >= 1 /\ left[s] = seen[s]
                   /\ \A t \in ScopeIds :
                          (/\ message_id[t] = message_id[s]
                           /\ ord[t] = ord[s] + 1
                           /\ alone[t] /\ pc[t] = "entered") =>
                              Count(memory, message_id[t]) = seen[s] + 1

C36_Witness ==
    \E s, t \in ScopeIds :
        /\ watcher = "CounterWatcher"
        /\ message_id[t] = message_id[s] /\ ord[s] = 1 /\ ord[t] = 2
        /\ Done(s) /\ exc_val[s] = "HandlerException" /\ calls[s] = <<>>
        /\ ret[s] = "True" /\ left[s] = 1 /\ alone[s]
        /\ pc[t] = "entered" /\ Count(memory, message_id[t]) = 2

====
